---- MODULE Spec2Model ----
(***************************************************************************)
(* A model of gamelingo's translation pipeline:                            *)
(*   - TranslationCache (src/src/gamelingo/translate.py), an LRU cache     *)
(*     kept in a collections.OrderedDict;                                  *)
(*   - Translator (same file), the coordinator that reuses the last        *)
(*     translation, consults the cache or calls the provider;              *)
(*   - levenshtein_distance / calculate_text_similarity_levenshtein        *)
(*     (src/src/screentranslate/utils.py).                                 *)
(*                                                                         *)
(* Python strings are sequences of one-character strings.  An OrderedDict  *)
(* is a sequence of [key, value] records, oldest first.                    *)
(***************************************************************************)
EXTENDS Integers, Sequences, FiniteSets, TLC

(***************************************************************************)
(* Bounds of the model.                                                    *)
(***************************************************************************)
\* the largest cache capacity (max_size) a run is constructed with
MaxCap == 2

\* the number of capture regions (config.regions)
MaxRegions == 2

\* how many tenths of a second the clock advances
MaxTicks == 4

\* how often start_monitoring starts a monitor loop
MaxLoops == 2

\* the longest string handed to the similarity and distance functions
MaxLen == 3
\* the most whitespace characters put on either side of an input text
MaxPad == 1

(***************************************************************************)
(* Strings.                                                                *)
(***************************************************************************)
\* str.isspace for the characters of the model
IsSpace(c) == c = " "

\* str.lower, one character
LowerChar(c) ==
    CASE c = "A" -> "a"
      [] c = "B" -> "b"
      [] c = "C" -> "c"
      [] OTHER -> c

\* str.lower
Lower(s) == [i \in 1..Len(s) |-> LowerChar(s[i])]

RECURSIVE LStrip(_)
\* str.lstrip
LStrip(s) ==
    IF s # <<>> /\ IsSpace(Head(s)) THEN LStrip(Tail(s)) ELSE s

RECURSIVE RStrip(_)
\* str.rstrip
RStrip(s) ==
    IF s # <<>> /\ IsSpace(s[Len(s)]) THEN RStrip(SubSeq(s, 1, Len(s) - 1)) ELSE s

\* str.strip
Strip(s) == RStrip(LStrip(s))

\* Python's None, a value that is no string
None == <<"<None>">>

Min2(a, b) == IF a <= b THEN a ELSE b
Max2(a, b) == IF a >= b THEN a ELSE b

(***************************************************************************)
(* utils.levenshtein_distance                                              *)
(***************************************************************************)
RECURSIVE LevInner_FreeSubstitution(_, _, _, _, _)
\* the inner loop without the "(c1 != c2)" cost of a substitution
LevInner_FreeSubstitution(previous_row, current_row, c1, s2, j) ==
    IF j > Len(s2) THEN current_row
    ELSE LET insertions    == previous_row[j + 1] + 1
             deletions     == current_row[j] + 1
             substitutions == previous_row[j]
         IN  LevInner_FreeSubstitution(previous_row,
                      Append(current_row,
                             Min2(insertions, Min2(deletions, substitutions))),
                      c1, s2, j + 1)

RECURSIVE LevInner_CostlyInsertion(_, _, _, _, _)
\* the inner loop with an insertion that costs 2
LevInner_CostlyInsertion(previous_row, current_row, c1, s2, j) ==
    IF j > Len(s2) THEN current_row
    ELSE LET insertions    == previous_row[j + 1] + 2
             deletions     == current_row[j] + 1
             substitutions == previous_row[j] + (IF c1 # s2[j] THEN 1 ELSE 0)
         IN  LevInner_CostlyInsertion(previous_row,
                      Append(current_row,
                             Min2(insertions, Min2(deletions, substitutions))),
                      c1, s2, j + 1)

RECURSIVE LevInner(_, _, _, _, _)
\* the inner loop "for j, c2 in enumerate(s2)": current_row grows by one
\* cell per character of s2 (j is the 1-based position in s2)
LevInner(previous_row, current_row, c1, s2, j) ==
    IF j > Len(s2) THEN current_row
    ELSE LET insertions    == previous_row[j + 1] + 1
             deletions     == current_row[j] + 1
             substitutions == previous_row[j] + (IF c1 # s2[j] THEN 1 ELSE 0)
         IN  LevInner(previous_row,
                      Append(current_row,
                             Min2(insertions, Min2(deletions, substitutions))),
                      c1, s2, j + 1)

RECURSIVE LevOuter(_, _, _, _)
\* the outer loop "for i, c1 in enumerate(s1)" (i is the 1-based position)
LevOuter(previous_row, s1, s2, i) ==
    IF i > Len(s1) THEN previous_row
    ELSE LevOuter(LevInner(previous_row, <<i>>, s1[i], s2, 1), s1, s2, i + 1)

\* the body after the swap: s1 is at least as long as s2
LevBody(s1, s2) ==
    IF Len(s2) = 0 THEN Len(s1)
    ELSE LET last_row == LevOuter([k \in 1..(Len(s2) + 1) |-> k - 1], s1, s2, 1)
         IN  last_row[Len(last_row)]

levenshtein_distance(s1, s2) ==
    IF Len(s1) < Len(s2) THEN LevBody(s2, s1) ELSE LevBody(s1, s2)

(***************************************************************************)
(* utils.calculate_text_similarity_levenshtein                             *)
(* The float result is the exact fraction <<numerator, denominator>>.      *)
(***************************************************************************)
\* the similarity with the distance divided by the shorter length
calculate_text_similarity_levenshtein_MinLen(text1, text2) ==
    IF text1 = <<>> \/ text2 = <<>> THEN <<0, 1>>
    ELSE LET t1 == Lower(Strip(text1))
             t2 == Lower(Strip(text2))
         IN  IF t1 = t2 THEN <<1, 1>>
             ELSE LET distance == levenshtein_distance(t1, t2)
                      max_len  == Min2(Len(t1), Len(t2))
                  IN  IF max_len = 0 THEN <<0, 1>>
                      ELSE <<max_len - distance, max_len>>

calculate_text_similarity_levenshtein(text1, text2) ==
    IF text1 = <<>> \/ text2 = <<>> THEN <<0, 1>>
    ELSE LET t1 == Lower(Strip(text1))
             t2 == Lower(Strip(text2))
         IN  IF t1 = t2 THEN <<1, 1>>
             ELSE LET distance == levenshtein_distance(t1, t2)
                      max_len  == Max2(Len(t1), Len(t2))
                  IN  IF max_len = 0 THEN <<0, 1>>
                      ELSE <<max_len - distance, max_len>>

\* x >= y for two fractions with positive denominators
FracGeq(x, y) == x[1] * y[2] >= y[1] * x[2]

(***************************************************************************)
(* collections.OrderedDict, as TranslationCache uses it                    *)
(***************************************************************************)
\* the keys of the dict, in order
KeysOf(d) == [i \in 1..Len(d) |-> d[i].key]

\* "key in d"
Contains(d, k) == \E i \in 1..Len(d) : d[i].key = k

\* d[key], for a key of d
Lookup(d, k) == d[CHOOSE i \in 1..Len(d) : d[i].key = k].value

\* d.move_to_end(key), for a key of d
move_to_end(d, k) ==
    SelectSeq(d, LAMBDA e : e.key # k) \o SelectSeq(d, LAMBDA e : e.key = k)

\* d[key] = value: an existing key keeps its place, a new one goes last
SetItem(d, k, v) ==
    IF Contains(d, k)
    THEN [i \in 1..Len(d) |-> IF d[i].key = k THEN [key |-> k, value |-> v] ELSE d[i]]
    ELSE Append(d, [key |-> k, value |-> v])

\* d.popitem() with the default last=True: the newest entry goes
popitem_last(d) == SubSeq(d, 1, Len(d) - 1)

\* d.popitem(last=False), for a non-empty d
popitem_first(d) == Tail(d)

(***************************************************************************)
(* Inputs.                                                                 *)
(***************************************************************************)
\* the words that reach the cache and the translator: "ab" and "AB" differ
\* in case only (similarity 1), "ac" is one substitution away from both
\* (similarity 1/2)
Words == { <<"a", "b">>, <<"A", "B">>, <<"a", "c">> }

\* n whitespace characters
Pad(n) == [i \in 1..n |-> " "]

\* raw input texts: nothing or a word, with at most MaxPad spaces around it
Texts ==
    { Pad(p[1]) \o w \o Pad(p[2]) :
        w \in Words \cup {<<>>},
        p \in { q \in (0..MaxPad) \X (0..MaxPad) : q[1] + q[2] <= MaxPad } }

\* what the translation provider can return: an empty or a non-empty string
Results == { <<>>, <<"x">> }

\* the language pairs set_languages is called with: the default pair and one
\* with another target
LangPairs == { <<"it", "en">>, <<"it", "es">> }

\* similarity thresholds a Translator is constructed with: the default 0.85
\* and 0.5, as fractions
Thresholds == { <<85, 100>>, <<1, 2>> }

(***************************************************************************)
(* State.                                                                  *)
(***************************************************************************)
VARIABLES
    cache,                \* TranslationCache.cache (shared by Translator.cache)
    max_size,             \* TranslationCache.max_size
    source_lang,          \* Translator.source_lang
    target_lang,          \* Translator.target_lang
    similarity_threshold, \* Translator.similarity_threshold
    last_source_text,     \* Translator._last_source_text
    last_translation,     \* Translator._last_translation
    translator,           \* Translator.translator: None or a handle's language pair
    call,                 \* the last operation called, with its arguments and,
                          \* for translate, what the provider did when asked
    ret,                  \* what the last operation returned
    provider_calls,       \* calls of self.translator.translate made by the last operation
    cache_lookups,        \* calls of self.cache.get made by the last operation
    before,               \* the cache when its last get, put or clear was called
    recency,              \* keys in the order of their last get-hit or put
    owed                  \* owed[k]: the keys that were cached beside k at k's
                          \* last get-hit and were neither evicted nor used since

\* the other objects of the application (ocr.py, hotkeys.py, gamepad.py,
\* gui.py), each a record of its fields, the threads and their surroundings
VARIABLES
    ocr_engine,       \* OCREngine: preprocess, _last_text, _last_image_hash
    seen,             \* history of the extract_text calls
    now,              \* time.time(), in tenths of a second
    hotkey_manager,   \* HotkeyManager: running, last_translate_time, last_tts_time
    gamepad_manager,  \* GamepadManager: running, joystick, the three last_*_time
    gamepad_present,  \* a gamepad is connected
    main_gui,         \* MainGUI: is_monitoring, monitor_thread
    pc,               \* where each thread is
    history           \* the callback the last step invoked; what happened

\* the variables of the translator and its cache, without call and ret
translatorVars ==
    << cache, max_size, source_lang, target_lang, similarity_threshold,
       last_source_text, last_translation, translator,
       provider_calls, cache_lookups, before, recency, owed >>

appVars ==
    << ocr_engine, seen, now, hotkey_manager, gamepad_manager, gamepad_present,
       main_gui, pc, history >>

vars == << cache, max_size, source_lang, target_lang, similarity_threshold,
           last_source_text, last_translation, translator, call, ret,
           provider_calls, cache_lookups, before, recency, owed,
           ocr_engine, seen, now, hotkey_manager, gamepad_manager,
           gamepad_present, main_gui, pc, history >>

\* self.debounce_time = 0.3, in tenths of a second
DebounceTime == 3

\* time.time() when the application starts: long after the epoch, so that
\* "current_time - 0 > self.debounce_time" holds for the first trigger
StartTime == DebounceTime + 1

\* the capture regions
Regions == 1..MaxRegions

\* OCREngine.__init__
InitOcr(preprocess) ==
    /\ ocr_engine = [preprocess |-> preprocess, last_text |-> <<>>,
                     last_image_hash |-> None]
    /\ seen = [prev |-> [r \in Regions |-> None], sources |-> {},
               clean |-> TRUE, made |-> None]

\* HotkeyManager.__init__ and GamepadManager.__init__
InitInput ==
    /\ now = StartTime
    /\ hotkey_manager = [running |-> FALSE, last_translate_time |-> 0,
                         last_tts_time |-> 0]
    /\ gamepad_manager = [running |-> FALSE, joystick |-> FALSE,
                          last_translate_time |-> 0, last_tts_time |-> 0,
                          last_translated_tts_time |-> 0]
    /\ history = [invoked |-> "none",
                  started |-> FALSE, stopped |-> FALSE, lost |-> FALSE]

\* MainGUI.__init__, before any thread is started
InitGui ==
    /\ main_gui = [is_monitoring |-> FALSE, monitor_thread |-> 0]
    /\ pc = [main |-> "idle", keyboard |-> "none", gamepad |-> "none",
             monitor |-> <<>>]

\* the application with nothing started and no gamepad
InitApp ==
    /\ InitOcr(TRUE)
    /\ InitInput
    /\ InitGui
    /\ gamepad_present = FALSE

\* the fields an operation can change, as a record
Fields ==
    [ cache |-> cache, last_source_text |-> last_source_text,
      last_translation |-> last_translation, translator |-> translator,
      source_lang |-> source_lang, target_lang |-> target_lang ]

(***************************************************************************)
(* TranslationCache                                                        *)
(***************************************************************************)
\* what a raised KeyError looks like to the caller
KeyError == <<"<KeyError>">>

\* TranslationCache.get without the move_to_end of a hit
TranslationCache_get_NoMove(d, text) ==
    IF Contains(d, text)
    THEN [cache |-> d, ret |-> Lookup(d, text)]
    ELSE [cache |-> d, ret |-> None]

\* TranslationCache.get without the membership test: d[text] raises on a miss
TranslationCache_get_Raise(d, text) ==
    IF Contains(d, text)
    THEN [cache |-> move_to_end(d, text), ret |-> Lookup(d, text)]
    ELSE [cache |-> d, ret |-> KeyError]

\* TranslationCache.get: the dict afterwards and the value returned
TranslationCache_get(d, text) ==
    IF Contains(d, text)
    THEN LET moved == move_to_end(d, text)
         IN  [cache |-> moved, ret |-> Lookup(moved, text)]
    ELSE [cache |-> d, ret |-> None]

\* TranslationCache.put without the eviction of the oldest entry
TranslationCache_put_NoEvict(d, size, text, translation) ==
    IF Contains(d, text)
    THEN SetItem(move_to_end(d, text), text, translation)
    ELSE SetItem(d, text, translation)

\* TranslationCache.put without the move_to_end of an existing key
TranslationCache_put_NoRefresh(d, size, text, translation) ==
    IF Contains(d, text)
    THEN SetItem(d, text, translation)
    ELSE LET added == SetItem(d, text, translation)
         IN  IF Len(added) > size THEN popitem_first(added) ELSE added

\* TranslationCache.put: the dict afterwards
TranslationCache_put(d, size, text, translation) ==
    IF Contains(d, text)
    THEN SetItem(move_to_end(d, text), text, translation)
    ELSE LET added == SetItem(d, text, translation)
         IN  IF Len(added) > size THEN popitem_first(added) ELSE added

\* TranslationCache.clear
TranslationCache_clear(d) == <<>>

\* the access log: key k was just hit by get or written by put
Touch(log, k) == SelectSeq(log, LAMBDA x : x # k) \o <<k>>

\* the set of keys of a dict
KeySet(d) == { d[i].key : i \in 1..Len(d) }

\* owed after key k was used (hit or put) and the dict became d
Settle(o, k, d) ==
    [ j \in DOMAIN o |-> IF j \in KeySet(d) THEN (o[j] \ {k}) \cap KeySet(d) ELSE {} ]

TranslatorUnchanged ==
    UNCHANGED << source_lang, target_lang, similarity_threshold,
                 last_source_text, last_translation, translator,
                 provider_calls, cache_lookups >>

\* cache.get(text)
Get(text) ==
    LET r == TranslationCache_get(cache, text)
    IN  /\ cache' = r.cache
        /\ ret' = r.ret
        /\ call' = [op |-> "get", text |-> text]
        /\ before' = [cache |-> cache]
        /\ recency' = IF Contains(cache, text) THEN Touch(recency, text) ELSE recency
        /\ owed' = IF Contains(cache, text)
                   THEN [Settle(owed, text, r.cache) EXCEPT ![text] = KeySet(cache) \ {text}]
                   ELSE owed
        /\ UNCHANGED max_size
        /\ TranslatorUnchanged
        /\ UNCHANGED appVars

\* cache.put(text, translation)
Put(text, translation) ==
    /\ cache' = TranslationCache_put(cache, max_size, text, translation)
    /\ ret' = None
    /\ call' = [op |-> "put", text |-> text, translation |-> translation]
    /\ before' = [cache |-> cache]
    /\ recency' = Touch(recency, text)
    /\ owed' = Settle(owed, text, cache')
    /\ UNCHANGED max_size
    /\ TranslatorUnchanged
    /\ UNCHANGED appVars

\* cache.clear()
Clear ==
    /\ cache' = TranslationCache_clear(cache)
    /\ ret' = None
    /\ call' = [op |-> "clear"]
    /\ before' = [cache |-> cache]
    /\ owed' = [k \in Words |-> {}]
    /\ UNCHANGED << max_size, recency >>
    /\ TranslatorUnchanged
    /\ UNCHANGED appVars

\* the fields after __init__ with the default languages "it" -> "en"
InitFields ==
    /\ cache = <<>>
    /\ source_lang = "it"
    /\ target_lang = "en"
    /\ last_source_text = <<>>
    /\ last_translation = <<>>
    /\ call = [op |-> "init"]
    /\ ret = None
    /\ provider_calls = 0
    /\ cache_lookups = 0
    /\ recency = <<>>
    /\ owed = [k \in Words |-> {}]

\* a TranslationCache on its own, of capacity 1..MaxCap
InitCache ==
    /\ max_size \in 1..MaxCap
    /\ similarity_threshold = <<85, 100>>
    /\ translator = None
    /\ InitFields
    /\ before = [cache |-> cache]
    /\ InitApp

NextCache ==
    \/ \E text \in Words : Get(text)
    \/ \E text \in Words, translation \in Results : Put(text, translation)
    \/ Clear

SpecCache == InitCache /\ [][NextCache]_vars

(***************************************************************************)
(* Translator                                                              *)
(***************************************************************************)
\* what a raised exception looks like where it is caught
Raise == <<"<Exception>">>

\* what the provider does with one request: it raises or returns a string
Outcomes == {Raise} \cup Results

\* the provider was not asked
NotAsked == <<"<not asked>">>

\* GoogleTranslator(source=..., target=...): a handle bound to a language pair
GoogleTranslator(source, target) == << "GoogleTranslator", source, target >>

\* the " [error]" that marks a stale translation
ErrorMarker == << " ", "[", "e", "r", "r", "o", "r", "]" >>

\* "not text" alone, without the test of the stripped text
IsBlank_NoStrip(text) == text = <<>>

\* "not text or not text.strip()"
IsBlank(text) == text = <<>> \/ Strip(text) = <<>>

\* the test of the reuse path with ">" for ">="
ShouldReuse_Strict(force, last_text, threshold, text) ==
    /\ ~force
    /\ last_text # <<>>
    /\ ~FracGeq(threshold, calculate_text_similarity_levenshtein(text, last_text))

\* the test of the reuse path, for the stripped text
ShouldReuse(force, last_text, threshold, text) ==
    /\ ~force
    /\ last_text # <<>>
    /\ FracGeq(calculate_text_similarity_levenshtein(text, last_text), threshold)

\* the result of a call, with the counts of the calls it made
Result(f, value, lookups, asked, provider) ==
    [ fields |-> f, ret |-> value, cache_lookups |-> lookups,
      provider_calls |-> asked, provider |-> provider ]

\* the reuse path, remembering the text as the cache-hit path does
ReuseResult_Remember(f, text) ==
    Result([f EXCEPT !.last_source_text = text], f.last_translation, 0, 0, NotAsked)

\* the reuse path: "return self._last_translation"
ReuseResult(f, text) == Result(f, f.last_translation, 0, 0, NotAsked)

\* the cache-hit path without the update of the last text and translation
CachedResult_NoRemember(f, text, got) ==
    Result([f EXCEPT !.cache = got.cache], got.ret, 1, 0, NotAsked)

\* the cache-hit path: got is what self.cache.get(text) gave
CachedResult(f, text, got) ==
    Result([f EXCEPT !.cache = got.cache,
                     !.last_source_text = text,
                     !.last_translation = got.ret],
           got.ret, 1, 0, NotAsked)

\* the fields after a successful provider call, without the cache.put
Succeeded_NoPut(f, size, text, translation) ==
    [f EXCEPT !.last_source_text = text, !.last_translation = translation]

\* the fields after a successful provider call
Succeeded(f, size, text, translation) ==
    [f EXCEPT !.cache = TranslationCache_put(f.cache, size, text, translation),
              !.last_source_text = text,
              !.last_translation = translation]

\* the except block without the error marker
Fallback_NoMarker(f, text) ==
    IF f.last_translation # <<>> THEN f.last_translation ELSE text

\* what the except block returns
Fallback(f, text) ==
    IF f.last_translation # <<>> THEN f.last_translation \o ErrorMarker ELSE text

\* the try block when a failure is remembered as the last translation
CallProvider_RememberFailure(f, size, text, handle, outcome) ==
    IF handle = None
    THEN Result([f EXCEPT !.last_translation = Fallback(f, text)],
                Fallback(f, text), 1, 0, NotAsked)
    ELSE IF outcome = Raise
    THEN Result([f EXCEPT !.translator = handle,
                          !.last_translation = Fallback(f, text)],
                Fallback(f, text), 1, 1, Raise)
    ELSE Result(Succeeded([f EXCEPT !.translator = handle], size, text, outcome),
                outcome, 1, 1, outcome)

\* the try block when GoogleTranslator(...) is created outside of it, so that
\* its exception leaves translate
CallProvider_CtorOutsideTry(f, size, text, handle, outcome) ==
    IF handle = None
    THEN Result(f, Raise, 1, 0, NotAsked)
    ELSE IF outcome = Raise
    THEN Result([f EXCEPT !.translator = handle], Fallback(f, text), 1, 1, Raise)
    ELSE Result(Succeeded([f EXCEPT !.translator = handle], size, text, outcome),
                outcome, 1, 1, outcome)

\* the try block with self.translator set to handle (None when
\* GoogleTranslator(...) raised); outcome is what handle.translate(text) does
CallProvider(f, size, text, handle, outcome) ==
    IF handle = None
    THEN Result(f, Fallback(f, text), 1, 0, NotAsked)
    ELSE IF outcome = Raise
    THEN Result([f EXCEPT !.translator = handle], Fallback(f, text), 1, 1, Raise)
    ELSE Result(Succeeded([f EXCEPT !.translator = handle], size, text, outcome),
                outcome, 1, 1, outcome)

\* the try block of translate, reached on a cache miss: ctor_ok tells
\* whether GoogleTranslator(...) succeeds if self.translator is None
PerformTranslation(f, size, text, ctor_ok, outcome) ==
    CallProvider(f, size, text,
                 IF f.translator = None
                 THEN IF ctor_ok THEN GoogleTranslator(f.source_lang, f.target_lang)
                      ELSE None
                 ELSE f.translator,
                 outcome)

\* translate after the reuse test failed: got is what self.cache.get(text) gave
AfterLookup(f, size, text, ctor_ok, outcome, got) ==
    IF got.ret # None
    THEN CachedResult(f, text, got)
    ELSE PerformTranslation([f EXCEPT !.cache = got.cache], size, text, ctor_ok, outcome)

\* translate of a text that is not blank, already stripped
TranslateStripped(f, size, threshold, text, force, ctor_ok, outcome) ==
    IF ShouldReuse(force, f.last_source_text, threshold, text)
    THEN ReuseResult(f, text)
    ELSE AfterLookup(f, size, text, ctor_ok, outcome, TranslationCache_get(f.cache, text))

\* Translator.translate without "text = text.strip()"
Translator_translate_NoStrip(f, size, threshold, raw, force, ctor_ok, outcome) ==
    IF IsBlank(raw)
    THEN Result(f, <<>>, 0, 0, NotAsked)
    ELSE TranslateStripped(f, size, threshold, raw, force, ctor_ok, outcome)

\* Translator.translate: the fields afterwards, the value returned, how often
\* the cache and the provider were asked and what the provider did
Translator_translate(f, size, threshold, raw, force, ctor_ok, outcome) ==
    IF IsBlank(raw)
    THEN Result(f, <<>>, 0, 0, NotAsked)
    ELSE TranslateStripped(f, size, threshold, Strip(raw), force, ctor_ok, outcome)

\* Translator.set_languages without the comparison with the current pair
Translator_set_languages_AlwaysSwitch(f, source, target, ctor_ok) ==
    LET switched == [f EXCEPT !.source_lang = source, !.target_lang = target]
    IN  IF ctor_ok
        THEN [switched EXCEPT !.translator = GoogleTranslator(source, target),
                              !.cache = TranslationCache_clear(f.cache),
                              !.last_source_text = <<>>,
                              !.last_translation = <<>>]
        ELSE switched

\* Translator.set_languages: the fields afterwards
Translator_set_languages(f, source, target, ctor_ok) ==
    IF source # f.source_lang \/ target # f.target_lang
    THEN LET switched == [f EXCEPT !.source_lang = source, !.target_lang = target]
         IN  IF ctor_ok
             THEN [switched EXCEPT !.translator = GoogleTranslator(source, target),
                                   !.cache = TranslationCache_clear(f.cache),
                                   !.last_source_text = <<>>,
                                   !.last_translation = <<>>]
             ELSE switched
    ELSE f

\* Translator.clear_cache without the reset of the last text and translation
Translator_clear_cache_KeepLast(f) ==
    [f EXCEPT !.cache = TranslationCache_clear(f.cache)]

\* Translator.clear_cache: the fields afterwards
Translator_clear_cache(f) ==
    [f EXCEPT !.cache = TranslationCache_clear(f.cache),
              !.last_source_text = <<>>,
              !.last_translation = <<>>]

\* the fields become those of record f
SetFields(f) ==
    /\ cache' = f.cache
    /\ last_source_text' = f.last_source_text
    /\ last_translation' = f.last_translation
    /\ translator' = f.translator
    /\ source_lang' = f.source_lang
    /\ target_lang' = f.target_lang

\* translator.translate(raw, force)
Translate(raw, force, ctor_ok, outcome) ==
    \* one choice of the inputs that the call does not consume
    /\ translator # None => ctor_ok
    /\ \E r \in { Translator_translate(Fields, max_size, similarity_threshold,
                                        raw, force, ctor_ok, outcome) } :
        /\ r.provider = NotAsked => outcome = Raise
        /\ SetFields(r.fields)
        /\ ret' = r.ret
        /\ provider_calls' = r.provider_calls
        /\ cache_lookups' = r.cache_lookups
        /\ call' = [op |-> "translate", text |-> raw, force |-> force,
                    provider |-> r.provider]
        /\ UNCHANGED << max_size, similarity_threshold, before, recency, owed >>
        /\ UNCHANGED appVars

\* translator.set_languages(source, target)
SetLanguages(source, target, ctor_ok) ==
    /\ SetFields(Translator_set_languages(Fields, source, target, ctor_ok))
    /\ ret' = None
    /\ provider_calls' = 0
    /\ cache_lookups' = 0
    /\ call' = [op |-> "set_languages", source |-> source, target |-> target]
    /\ UNCHANGED << max_size, similarity_threshold, before, recency, owed >>
    /\ UNCHANGED appVars

\* translator.clear_cache()
ClearCache ==
    /\ SetFields(Translator_clear_cache(Fields))
    /\ ret' = None
    /\ provider_calls' = 0
    /\ cache_lookups' = 0
    /\ call' = [op |-> "clear_cache"]
    /\ UNCHANGED << max_size, similarity_threshold, before, recency, owed >>
    /\ UNCHANGED appVars

\* Translator.__init__: GoogleTranslator(...) may raise, which leaves
\* self.translator None
Init ==
    /\ max_size \in 1..MaxCap
    /\ similarity_threshold \in Thresholds
    /\ translator \in { None, GoogleTranslator("it", "en") }
    /\ InitFields
    /\ before = [cache |-> cache]
    /\ InitApp

Next ==
    \/ \E raw \in Texts, force \in BOOLEAN, ctor_ok \in BOOLEAN, outcome \in Outcomes :
          Translate(raw, force, ctor_ok, outcome)
    \/ \E pair \in LangPairs, ctor_ok \in BOOLEAN :
          SetLanguages(pair[1], pair[2], ctor_ok)
    \/ ClearCache

Spec == Init /\ [][Next]_vars

(***************************************************************************)
(* The functions of utils on their own: a pair of arguments is drawn, and  *)
(* each function is applied to it.                                         *)
(***************************************************************************)
\* the characters of the arguments: whitespace, a letter in both cases and
\* another letter
SimChars == { " ", "a", "A", "b" }

\* the arguments: every string of at most MaxLen characters
SimTexts == UNION { [1..n -> SimChars] : n \in 0..MaxLen }

\* calculate_text_similarity_levenshtein(text1, text2)
CalculateSimilarity ==
    /\ call.op = "args"
    /\ call' = [call EXCEPT !.op = "calculate_text_similarity_levenshtein"]
    /\ ret' = calculate_text_similarity_levenshtein(call.text1, call.text2)
    /\ UNCHANGED << cache, max_size, before, recency, owed >>
    /\ TranslatorUnchanged
    /\ UNCHANGED appVars

\* levenshtein_distance(text1, text2)
LevenshteinDistance ==
    /\ call.op = "args"
    /\ call' = [call EXCEPT !.op = "levenshtein_distance"]
    /\ ret' = levenshtein_distance(call.text1, call.text2)
    /\ UNCHANGED << cache, max_size, before, recency, owed >>
    /\ TranslatorUnchanged
    /\ UNCHANGED appVars

InitSim ==
    /\ call \in [op : {"args"}, text1 : SimTexts, text2 : SimTexts]
    /\ ret = None
    /\ cache = <<>>
    /\ max_size = 1
    /\ source_lang = "it"
    /\ target_lang = "en"
    /\ similarity_threshold = <<85, 100>>
    /\ last_source_text = <<>>
    /\ last_translation = <<>>
    /\ translator = None
    /\ provider_calls = 0
    /\ cache_lookups = 0
    /\ before = [cache |-> cache]
    /\ recency = <<>>
    /\ owed = [k \in Words |-> {}]
    /\ InitApp

NextSim ==
    \/ CalculateSimilarity
    \/ LevenshteinDistance

SpecSim == InitSim /\ [][NextSim]_vars

(***************************************************************************)
(* OCREngine (ocr.py) with the helpers of utils it calls                   *)
(***************************************************************************)
\* str.replace(old, new) for single characters
ReplaceChar(s, old, new) == [i \in 1..Len(s) |-> IF s[i] = old THEN new ELSE s[i]]

RECURSIVE JoinSplit(_)
\* ' '.join(text.split()) before its leading blank is dropped: every run of
\* whitespace in front of a word becomes one blank, a trailing run goes
JoinSplit(s) ==
    IF s = <<>> THEN <<>>
    ELSE IF IsSpace(Head(s))
         THEN IF Len(s) > 1 /\ ~IsSpace(s[2])
              THEN <<" ">> \o JoinSplit(Tail(s))
              ELSE JoinSplit(Tail(s))
         ELSE <<Head(s)>> \o JoinSplit(Tail(s))

\* utils.clean_ocr_text ("<0>" is the full-width zero of the second replace)
clean_ocr_text(text) ==
    IF text = <<>> THEN <<>>
    ELSE Strip(ReplaceChar(ReplaceChar(LStrip(JoinSplit(text)), "|", "I"), "<0>", "0"))

\* utils.calculate_image_hash: the MD5 digest of image.tobytes(), which
\* depends on the pixel bytes and not on the width and height
calculate_image_hash(image) == <<"md5", image.bytes>>

\* utils.preprocess_image_for_ocr: four times the width and the height
preprocess_image_for_ocr(image) ==
    [image EXCEPT !.width = 4 * @, !.height = 4 * @]

\* the captured images: a wide one, a square one with the same pixel bytes,
\* and a square one with other pixel bytes
Images ==
    { [width |-> 4, height |-> 1, bytes |-> "p"],
      [width |-> 2, height |-> 2, bytes |-> "p"],
      [width |-> 2, height |-> 2, bytes |-> "q"] }

\* the language argument (map_language_to_tesseract of it and en)
OcrLanguages == { "ita", "eng" }

\* the page segmentation modes
PsmModes == { 3, 6, 7 }

\* what pytesseract.image_to_string returns: whitespace, a line with a bar,
\* a line with two blanks between two letters
RawTexts == { <<" ">>, <<"|">>, <<"a", " ", " ", "b">> }

\* what pytesseract.image_to_string does in one mode: it raises or returns
PsmOutcomes == {Raise} \cup RawTexts

\* "if aspect_ratio > 0.3": the order in which the modes are tried
psm_modes(processed_image) ==
    LET multi_line == IF processed_image.width > 0
                      THEN 10 * processed_image.height > 3 * processed_image.width
                      ELSE TRUE
    IN  IF multi_line THEN <<6, 3, 7>> ELSE <<7, 6, 3>>

\* the loop over the modes and the choice of best_text; tesseract[psm] is
\* what image_to_string does in mode psm
best_text(modes, tesseract) ==
    LET text(k) == clean_ocr_text(tesseract[modes[k]])
        good(k) == tesseract[modes[k]] # Raise /\ Strip(text(k)) # <<>>
    IN  IF good(1) THEN text(1)
        ELSE IF good(2) /\ (~good(3) \/ Len(text(2)) >= Len(text(3))) THEN text(2)
        ELSE IF good(3) THEN text(3)
        ELSE <<>>

\* OCREngine.extract_text: the engine afterwards, the text returned, whether
\* the image passed the hash test (changed) and whether the result was stored;
\* pre_ok tells whether the preprocessing succeeds
OCREngine_extract_text(e, image, language, pre_ok, tesseract) ==
    LET image_hash == calculate_image_hash(image)
    IN  IF image_hash = e.last_image_hash
        THEN [engine |-> e, ret |-> e.last_text, changed |-> FALSE, stored |-> FALSE]
        ELSE IF e.preprocess /\ ~pre_ok
        THEN [engine |-> e, ret |-> <<>>, changed |-> TRUE, stored |-> FALSE]
        ELSE LET processed_image == IF e.preprocess
                                    THEN preprocess_image_for_ocr(image)
                                    ELSE image
                 best == best_text(psm_modes(processed_image), tesseract)
             IN  [engine |-> [e EXCEPT !.last_text = best,
                                       !.last_image_hash = image_hash],
                  ret |-> best, changed |-> TRUE, stored |-> TRUE]

\* whether the preprocessing can fail in a call with this image: only when
\* the call gets that far
PreprocessRuns(image) ==
    IF calculate_image_hash(image) # ocr_engine.last_image_hash /\ ocr_engine.preprocess
    THEN BOOLEAN
    ELSE {TRUE}

\* what image_to_string can do in the three modes in a call with this image:
\* anything when the call gets that far, else it is not called
TesseractRuns(image, pre_ok) ==
    IF calculate_image_hash(image) # ocr_engine.last_image_hash /\ pre_ok
    THEN [PsmModes -> PsmOutcomes]
    ELSE { [psm \in PsmModes |-> Raise] }

\* ocr_engine.extract_text(image, language) for the image captured from region
ExtractText(region, image, language, pre_ok, tesseract) ==
    \E r \in { OCREngine_extract_text(ocr_engine, image, language, pre_ok, tesseract) } :
        /\ ocr_engine' = r.engine
        /\ ret' = r.ret
        /\ call' = [op |-> "extract_text", region |-> region, image |-> image,
                    language |-> language, changed |-> r.changed]
        /\ seen' = [prev    |-> [seen.prev EXCEPT ![region] = calculate_image_hash(image)],
                    sources |-> seen.sources \cup {region},
                    clean   |-> seen.clean /\ (r.changed => r.stored),
                    made    |-> IF r.stored
                                THEN <<calculate_image_hash(image), language>>
                                ELSE seen.made]
        /\ UNCHANGED translatorVars
        /\ UNCHANGED << now, hotkey_manager, gamepad_manager, gamepad_present,
                        main_gui, pc, history >>

\* an OCREngine, with or without preprocessing
InitOcrEngine ==
    /\ max_size = 1
    /\ similarity_threshold = <<85, 100>>
    /\ translator = None
    /\ InitFields
    /\ before = [cache |-> cache]
    /\ \E preprocess \in BOOLEAN : InitOcr(preprocess)
    /\ InitInput
    /\ InitGui
    /\ gamepad_present = FALSE

NextOcr ==
    \E region \in Regions, image \in Images, language \in OcrLanguages :
        \E pre_ok \in PreprocessRuns(image) :
            \E tesseract \in TesseractRuns(image, pre_ok) :
                ExtractText(region, image, language, pre_ok, tesseract)

SpecOcr == InitOcrEngine /\ [][NextOcr]_vars

(***************************************************************************)
(* HotkeyManager (hotkeys.py) and GamepadManager (gamepad.py): the         *)
(* keyboard listener thread, the gamepad poll thread and the clock.  The   *)
(* translate callback is MainGUI._do_manual_translation, which runs in the *)
(* thread that triggers it.                                                *)
(***************************************************************************)
\* "current_time - self.last_..._time > self.debounce_time"
Debounced(last_time) == now - last_time > DebounceTime

\* the callback of an action is invoked now
Invoke(action) == [history EXCEPT !.invoked = action]

\* a step that invokes no callback
Quiet == [history EXCEPT !.invoked = "none"]

\* what the input steps leave alone
InputUnchanged ==
    /\ UNCHANGED translatorVars
    /\ UNCHANGED << call, ret, ocr_engine, seen, main_gui >>

\* time passes
Tick ==
    /\ now < StartTime + MaxTicks
    /\ now' = now + 1
    /\ history' = Quiet
    /\ UNCHANGED << hotkey_manager, gamepad_manager, gamepad_present, pc >>
    /\ InputUnchanged

\* a gamepad is connected
Plug ==
    /\ ~gamepad_present
    /\ gamepad_present' = TRUE
    /\ history' = Quiet
    /\ UNCHANGED << now, hotkey_manager, gamepad_manager, pc >>
    /\ InputUnchanged

\* the gamepad is disconnected
Unplug ==
    /\ gamepad_present
    /\ gamepad_present' = FALSE
    /\ history' = Quiet
    /\ UNCHANGED << now, hotkey_manager, gamepad_manager, pc >>
    /\ InputUnchanged

\* GamepadManager.detect_gamepad: whether a joystick was found
detect_gamepad == gamepad_present

\* GamepadManager.start: the manager afterwards; the poll thread is started
\* when running turns true
GamepadManager_start(g) ==
    IF g.running THEN g
    ELSE IF ~detect_gamepad THEN g
    ELSE [g EXCEPT !.joystick = TRUE, !.running = TRUE]

\* GamepadManager.stop
GamepadManager_stop(g) == [g EXCEPT !.running = FALSE, !.joystick = FALSE]

\* HotkeyManager.start: the keyboard listener, then gamepad_manager.start()
HotkeyStart ==
    /\ ~history.started
    /\ ~hotkey_manager.running
    /\ hotkey_manager' = [hotkey_manager EXCEPT !.running = TRUE]
    /\ gamepad_manager' = GamepadManager_start(gamepad_manager)
    /\ pc' = [pc EXCEPT !.keyboard = "idle",
                        !.gamepad = IF gamepad_manager'.running THEN "while" ELSE @]
    /\ history' = [history EXCEPT !.started = TRUE, !.invoked = "none"]
    /\ UNCHANGED << now, gamepad_present >>
    /\ InputUnchanged

\* HotkeyManager.stop: the listener stops (a callback that is running goes
\* on), then gamepad_manager.stop()
HotkeyStop ==
    /\ history.started
    /\ ~history.stopped
    /\ hotkey_manager' = [hotkey_manager EXCEPT !.running = FALSE]
    /\ gamepad_manager' = GamepadManager_stop(gamepad_manager)
    /\ pc' = [pc EXCEPT !.keyboard = IF @ = "idle" THEN "none" ELSE @]
    /\ history' = [history EXCEPT !.stopped = TRUE, !.invoked = "none"]
    /\ UNCHANGED << now, gamepad_present >>
    /\ InputUnchanged

\* the keys a press can be
Keys == { "translate_key", "tts_key", "other" }

\* HotkeyManager._on_key_press(key), in the listener thread
KeyPress(key) ==
    /\ pc.keyboard = "idle"
    /\ IF key = "translate_key" /\ Debounced(hotkey_manager.last_translate_time)
       THEN /\ hotkey_manager' = [hotkey_manager EXCEPT !.last_translate_time = now]
            /\ pc' = [pc EXCEPT !.keyboard = "callback"]
            /\ history' = Invoke("translate")
       ELSE IF key = "tts_key" /\ Debounced(hotkey_manager.last_tts_time)
       THEN /\ hotkey_manager' = [hotkey_manager EXCEPT !.last_tts_time = now]
            /\ pc' = pc
            /\ history' = Invoke("tts")
       ELSE /\ UNCHANGED << hotkey_manager, pc >>
            /\ history' = Quiet
    /\ UNCHANGED << now, gamepad_manager, gamepad_present >>
    /\ InputUnchanged

\* where a thread goes when _do_manual_translation returns
AfterCallback(thread) ==
    IF thread = "keyboard"
    THEN IF hotkey_manager.running THEN "idle" ELSE "none"
    ELSE "button_tts"

\* _do_manual_translation in a thread, up to self.translator.translate: with
\* text it enters translate, without text it returns
CallbackCaptures(thread, text_found) ==
    /\ pc[thread] = "callback"
    /\ pc' = [pc EXCEPT ![thread] = IF text_found THEN "translate"
                                    ELSE AfterCallback(thread)]
    /\ history' = Quiet
    /\ UNCHANGED << now, hotkey_manager, gamepad_manager, gamepad_present >>
    /\ InputUnchanged

\* self.translator.translate returns in a thread, and the callback after it
TranslateReturns(thread) ==
    /\ pc[thread] = "translate"
    /\ pc' = [pc EXCEPT ![thread] = AfterCallback(thread)]
    /\ history' = Quiet
    /\ UNCHANGED << now, hotkey_manager, gamepad_manager, gamepad_present >>
    /\ InputUnchanged

\* _poll_loop: "while self.running"
PollWhile ==
    /\ pc.gamepad = "while"
    /\ pc' = [pc EXCEPT !.gamepad = IF gamepad_manager.running THEN "body" ELSE "done"]
    /\ history' = Quiet
    /\ UNCHANGED << now, hotkey_manager, gamepad_manager, gamepad_present >>
    /\ InputUnchanged

\* _poll_loop: without a joystick detect_gamepad, sleep and continue; with
\* one pump the events and go on to the buttons
PollBody ==
    /\ pc.gamepad = "body"
    /\ IF ~gamepad_manager.joystick
       THEN /\ gamepad_manager' = [gamepad_manager EXCEPT !.joystick = detect_gamepad]
            /\ pc' = [pc EXCEPT !.gamepad = "while"]
       ELSE /\ UNCHANGED gamepad_manager
            /\ pc' = [pc EXCEPT !.gamepad = "button_translate"]
    /\ history' = Quiet
    /\ UNCHANGED << now, hotkey_manager, gamepad_present >>
    /\ InputUnchanged

\* the positions of _poll_loop at a button
AtButton == { "button_translate", "button_tts", "button_translated_tts" }

\* the except branch of _poll_loop with "break" in place of the retry
PollError_Break ==
    /\ \/ pc.gamepad = "body" /\ gamepad_manager.joystick /\ ~gamepad_present
       \/ pc.gamepad \in AtButton /\ (~gamepad_manager.joystick \/ ~gamepad_present)
    /\ gamepad_manager' = [gamepad_manager EXCEPT !.joystick = FALSE]
    /\ pc' = [pc EXCEPT !.gamepad = "done"]
    /\ history' = [history EXCEPT !.lost = TRUE, !.invoked = "none"]
    /\ UNCHANGED << now, hotkey_manager, gamepad_present >>
    /\ InputUnchanged

\* _poll_loop: pygame raises (the gamepad is gone, or stop() has set
\* self.joystick to None): self.joystick = None, sleep, next round
PollError ==
    /\ \/ pc.gamepad = "body" /\ gamepad_manager.joystick /\ ~gamepad_present
       \/ pc.gamepad \in AtButton /\ (~gamepad_manager.joystick \/ ~gamepad_present)
    /\ gamepad_manager' = [gamepad_manager EXCEPT !.joystick = FALSE]
    /\ pc' = [pc EXCEPT !.gamepad = "while"]
    /\ history' = [history EXCEPT !.lost = TRUE, !.invoked = "none"]
    /\ UNCHANGED << now, hotkey_manager, gamepad_present >>
    /\ InputUnchanged

\* _poll_loop at the translate button: pressed, and debounced, it invokes
\* the translate callback in the poll thread
PollButtonTranslate(pressed) ==
    /\ pc.gamepad = "button_translate"
    /\ gamepad_manager.joystick
    /\ pressed => gamepad_present
    /\ IF pressed /\ Debounced(gamepad_manager.last_translate_time)
       THEN /\ gamepad_manager' = [gamepad_manager EXCEPT !.last_translate_time = now]
            /\ pc' = [pc EXCEPT !.gamepad = "callback"]
            /\ history' = Invoke("translate")
       ELSE /\ UNCHANGED gamepad_manager
            /\ pc' = [pc EXCEPT !.gamepad = "button_tts"]
            /\ history' = Quiet
    /\ UNCHANGED << now, hotkey_manager, gamepad_present >>
    /\ InputUnchanged

\* _poll_loop at the TTS button
PollButtonTts(pressed) ==
    /\ pc.gamepad = "button_tts"
    /\ gamepad_manager.joystick
    /\ pressed => gamepad_present
    /\ IF pressed /\ Debounced(gamepad_manager.last_tts_time)
       THEN /\ gamepad_manager' = [gamepad_manager EXCEPT !.last_tts_time = now]
            /\ history' = Invoke("tts")
       ELSE /\ UNCHANGED gamepad_manager
            /\ history' = Quiet
    /\ pc' = [pc EXCEPT !.gamepad = "button_translated_tts"]
    /\ UNCHANGED << now, hotkey_manager, gamepad_present >>
    /\ InputUnchanged

\* _poll_loop at the translated-TTS button, then the sleep of 1/60 s
PollButtonTranslatedTts(pressed) ==
    /\ pc.gamepad = "button_translated_tts"
    /\ gamepad_manager.joystick
    /\ pressed => gamepad_present
    /\ IF pressed /\ Debounced(gamepad_manager.last_translated_tts_time)
       THEN /\ gamepad_manager' = [gamepad_manager EXCEPT !.last_translated_tts_time = now]
            /\ history' = Invoke("translated_tts")
       ELSE /\ UNCHANGED gamepad_manager
            /\ history' = Quiet
    /\ pc' = [pc EXCEPT !.gamepad = "while"]
    /\ UNCHANGED << now, hotkey_manager, gamepad_present >>
    /\ InputUnchanged

\* the steps of the gamepad poll thread
PollThread ==
    \/ PollWhile
    \/ PollBody
    \/ PollError
    \/ \E pressed \in BOOLEAN : PollButtonTranslate(pressed)
    \/ \E text_found \in BOOLEAN : CallbackCaptures("gamepad", text_found)
    \/ TranslateReturns("gamepad")
    \/ \E pressed \in BOOLEAN : PollButtonTts(pressed)
    \/ \E pressed \in BOOLEAN : PollButtonTranslatedTts(pressed)

\* the steps of the keyboard listener thread
KeyboardThread ==
    \/ \E key \in Keys : KeyPress(key)
    \/ \E text_found \in BOOLEAN : CallbackCaptures("keyboard", text_found)
    \/ TranslateReturns("keyboard")

\* the two managers constructed, nothing started, a gamepad there or not
InitHotkeys ==
    /\ max_size = 1
    /\ similarity_threshold = <<85, 100>>
    /\ translator = None
    /\ InitFields
    /\ before = [cache |-> cache]
    /\ InitOcr(TRUE)
    /\ InitInput
    /\ InitGui
    /\ gamepad_present \in BOOLEAN

NextInput ==
    \/ Tick
    \/ Plug
    \/ Unplug
    \/ HotkeyStart
    \/ HotkeyStop
    \/ KeyboardThread
    \/ PollThread

SpecInput == InitHotkeys /\ [][NextInput]_vars

\* gamepad_manager.start() on its own
GamepadStart ==
    /\ ~history.started
    /\ gamepad_manager' = GamepadManager_start(gamepad_manager)
    /\ pc' = [pc EXCEPT !.gamepad = IF gamepad_manager'.running THEN "while" ELSE @]
    /\ history' = [history EXCEPT !.started = TRUE, !.invoked = "none"]
    /\ UNCHANGED << now, hotkey_manager, gamepad_present >>
    /\ InputUnchanged

\* gamepad_manager.stop() on its own
GamepadStop ==
    /\ history.started
    /\ ~history.stopped
    /\ gamepad_manager' = GamepadManager_stop(gamepad_manager)
    /\ history' = [history EXCEPT !.stopped = TRUE, !.invoked = "none"]
    /\ UNCHANGED << now, hotkey_manager, gamepad_present, pc >>
    /\ InputUnchanged

NextGamepad ==
    \/ Tick
    \/ Plug
    \/ Unplug
    \/ GamepadStart
    \/ GamepadStop
    \/ PollThread

\* a GamepadManager alone
SpecGamepad == InitHotkeys /\ [][NextGamepad]_vars

\* the poll thread is a thread: when it can take a step it takes one
FairSpecGamepad == SpecGamepad /\ WF_vars(PollThread)

(***************************************************************************)
(* MainGUI (gui.py) in continuous mode: the Tk thread, which runs          *)
(* start_monitoring and stop_monitoring, and the threads of _monitor_loop. *)
(* pc.monitor[i] is the position of the i-th thread created.               *)
(***************************************************************************)
\* the threads of _monitor_loop created so far
MonitorThreads == 1..Len(pc.monitor)

\* a thread of _monitor_loop at a position
At(position, region, found) ==
    [at |-> position, region |-> region, found |-> found]

\* what the monitor steps leave alone
MonitorUnchanged ==
    /\ UNCHANGED << max_size, similarity_threshold, provider_calls, cache_lookups,
                    before, recency, owed >>
    /\ UNCHANGED << call, ret, seen, now, hotkey_manager, gamepad_manager,
                    gamepad_present, history >>

\* start_monitoring in continuous mode: set_languages with the pair of the
\* configuration, is_monitoring = True, and a new thread that is started
StartMonitoring(source, target, ctor_ok) ==
    /\ pc.main = "idle"
    /\ ~main_gui.is_monitoring
    /\ Len(pc.monitor) < MaxLoops
    /\ translator = None => ctor_ok
    /\ SetFields(Translator_set_languages(Fields, source, target, ctor_ok))
    /\ main_gui' = [is_monitoring |-> TRUE, monitor_thread |-> Len(pc.monitor) + 1]
    /\ pc' = [pc EXCEPT !.monitor = Append(@, At("while", 0, FALSE))]
    /\ UNCHANGED ocr_engine
    /\ MonitorUnchanged

\* whether monitor_thread.join returns at once: there is no thread, or it
\* has ended
Joined ==
    \/ main_gui.monitor_thread = 0
    \/ pc.monitor[main_gui.monitor_thread].at = "done"

\* stop_monitoring: is_monitoring = False, then monitor_thread.join(timeout=2.0)
StopMonitoring ==
    /\ pc.main = "idle"
    /\ main_gui.is_monitoring
    /\ main_gui' = [main_gui EXCEPT !.is_monitoring = FALSE]
    /\ pc' = [pc EXCEPT !.main = IF Joined THEN "idle" ELSE "join"]
    /\ UNCHANGED << ocr_engine, translatorVars >>
    /\ UNCHANGED << call, ret, seen, now, hotkey_manager, gamepad_manager,
                    gamepad_present, history >>

\* monitor_thread.join(timeout=2.0) returns: the thread has ended, or the
\* two seconds are over, and stop_monitoring goes on to its end
JoinReturns(timed_out) ==
    /\ pc.main = "join"
    /\ timed_out \/ Joined
    /\ pc' = [pc EXCEPT !.main = "idle"]
    /\ UNCHANGED << ocr_engine, main_gui, translatorVars >>
    /\ UNCHANGED << call, ret, seen, now, hotkey_manager, gamepad_manager,
                    gamepad_present, history >>

\* _monitor_loop: "while self.is_monitoring"
MonitorWhile(i) ==
    /\ pc.monitor[i].at = "while"
    /\ pc' = [pc EXCEPT !.monitor[i] = IF main_gui.is_monitoring
                                       THEN At("ocr", 1, FALSE)
                                       ELSE At("done", 0, FALSE)]
    /\ UNCHANGED << ocr_engine, main_gui, translatorVars >>
    /\ UNCHANGED << call, ret, seen, now, hotkey_manager, gamepad_manager,
                    gamepad_present, history >>

\* _monitor_loop at a region: capture_region, which may raise (then the
\* except branch sleeps), and extract_text on the one engine; after the last
\* region the text is compared with the text of the round before (differs)
MonitorOcr(i, captured, image, pre_ok, tesseract, differs) ==
    /\ pc.monitor[i].at = "ocr"
    /\ IF captured
       THEN \E r \in { OCREngine_extract_text(ocr_engine, image, "ita", pre_ok, tesseract) } :
              LET found == pc.monitor[i].found \/ Strip(r.ret) # <<>>
                  region == pc.monitor[i].region
              IN  /\ ocr_engine' = r.engine
                  /\ pc' = [pc EXCEPT !.monitor[i] =
                              IF region < MaxRegions THEN At("ocr", region + 1, found)
                              ELSE IF found /\ differs THEN At("translate", 0, FALSE)
                              ELSE At("sleep", 0, FALSE)]
       ELSE /\ pc' = [pc EXCEPT !.monitor[i] = At("sleep", 0, FALSE)]
            /\ UNCHANGED ocr_engine
    /\ UNCHANGED << main_gui, translatorVars >>
    /\ UNCHANGED << call, ret, seen, now, hotkey_manager, gamepad_manager,
                    gamepad_present, history >>

\* _monitor_loop: self.translator.translate returns
MonitorTranslated(i) ==
    /\ pc.monitor[i].at = "translate"
    /\ pc' = [pc EXCEPT !.monitor[i] = At("sleep", 0, FALSE)]
    /\ UNCHANGED << ocr_engine, main_gui, translatorVars >>
    /\ UNCHANGED << call, ret, seen, now, hotkey_manager, gamepad_manager,
                    gamepad_present, history >>

\* _monitor_loop: time.sleep returns
MonitorWake(i) ==
    /\ pc.monitor[i].at = "sleep"
    /\ pc' = [pc EXCEPT !.monitor[i] = At("while", 0, FALSE)]
    /\ UNCHANGED << ocr_engine, main_gui, translatorVars >>
    /\ UNCHANGED << call, ret, seen, now, hotkey_manager, gamepad_manager,
                    gamepad_present, history >>

\* the images a step at a region can capture: none when capture_region raises
Captures(captured) ==
    IF captured THEN Images ELSE { CHOOSE image \in Images : TRUE }

\* a step of a thread of _monitor_loop
MonitorThread(i) ==
    \/ MonitorWhile(i)
    \/ \E captured \in BOOLEAN, differs \in BOOLEAN :
          \E image \in Captures(captured) :
              \E pre_ok \in IF captured THEN PreprocessRuns(image) ELSE {TRUE} :
                  \E tesseract \in TesseractRuns(image, captured /\ pre_ok) :
                      MonitorOcr(i, captured, image, pre_ok, tesseract, differs)
    \/ MonitorTranslated(i)
    \/ MonitorWake(i)

\* a MainGUI with engines, nothing started
InitMonitor ==
    /\ max_size = 1
    /\ similarity_threshold = <<85, 100>>
    /\ translator \in { None, GoogleTranslator("it", "en") }
    /\ InitFields
    /\ before = [cache |-> cache]
    /\ InitApp

NextMonitor ==
    \/ \E pair \in LangPairs, ctor_ok \in BOOLEAN :
          StartMonitoring(pair[1], pair[2], ctor_ok)
    \/ StopMonitoring
    \/ \E timed_out \in BOOLEAN : JoinReturns(timed_out)
    \/ \E i \in MonitorThreads : MonitorThread(i)

SpecMonitor == InitMonitor /\ [][NextMonitor]_vars

(***************************************************************************)
(* Properties of TranslationCache (checked under SpecCache)                *)
(***************************************************************************)
\* position of key k in the access log (0 when never used)
LogPos(k) ==
    IF \E i \in 1..Len(recency) : recency[i] = k
    THEN CHOOSE i \in 1..Len(recency) : recency[i] = k
    ELSE 0

\* the entries of dict d other than key k, in order
Others(d, k) == SelectSeq(d, LAMBDA e : e.key # k)

\* the last call was a put of a key the cache did not hold, into a full cache
PutNewAtCapacity ==
    /\ call.op = "put"
    /\ ~Contains(before.cache, call.text)
    /\ Len(before.cache) = max_size

\* the last call was a put of a key the cache already held
PutExisting == call.op = "put" /\ Contains(before.cache, call.text)

\* the last call was a get of a key the cache held
GetHit == call.op = "get" /\ Contains(before.cache, call.text)

\* the last call was a get of a key the cache did not hold
GetMiss == call.op = "get" /\ ~Contains(before.cache, call.text)

\* C1: with capacity N >= 1, after any sequence of get, put and clear the
\* cache holds at most N entries and no key twice.
C1_BoundedUniqueKeys ==
    /\ max_size >= 1
    /\ Len(cache) <= max_size
    /\ \A i, j \in 1..Len(cache) : cache[i].key = cache[j].key => i = j

\* C1 witness: a put of a new key arrived at a full cache, which is full again
C1_Witness == PutNewAtCapacity /\ Len(cache) = max_size /\ max_size = MaxCap

\* C2: a put of a new key into a full cache removes exactly one entry, the
\* one whose last get-hit or put is the oldest; every other entry is kept
\* and the new key is present with its value.
C2_EvictsLeastRecentlyUsed ==
    PutNewAtCapacity =>
        LET old  == before.cache
            gone == { i \in 1..Len(old) : ~Contains(cache, old[i].key) }
        IN  /\ Cardinality(gone) = 1
            /\ \A i \in gone : \A j \in 1..Len(old) :
                   j # i => LogPos(old[i].key) < LogPos(old[j].key)
            /\ \A j \in 1..Len(old) : j \notin gone =>
                   \E m \in 1..Len(cache) : cache[m] = old[j]
            /\ Contains(cache, call.text)
            /\ Lookup(cache, call.text) = call.translation
            /\ Len(cache) = max_size

\* C2 witness: a put into a full cache of two entries dropped the first of
\* them and kept the second
C2_Witness ==
    /\ PutNewAtCapacity
    /\ Len(before.cache) = 2
    /\ ~Contains(cache, before.cache[1].key)
    /\ Contains(cache, before.cache[2].key)

\* C3: a get that hits returns the value and makes the key the most recently
\* used entry, the others keeping their order; and a key is evicted only
\* when every key cached beside it at its last get-hit has since been
\* evicted or used again.
C3_GetRefreshesRecency ==
    [][ /\ (call'.op = "get" /\ Contains(cache, call'.text)) =>
              /\ ret' = Lookup(cache, call'.text)
              /\ Len(cache') = Len(cache)
              /\ cache'[Len(cache')] = [key |-> call'.text, value |-> ret']
              /\ Others(cache', call'.text) = Others(cache, call'.text)
        /\ \A k \in Words :
              (call'.op = "put" /\ Contains(cache, k) /\ ~Contains(cache', k)) =>
                  owed[k] = {}
      ]_vars

\* C3 witness: on capacity 2, put(a), put(b), get(a): the get hit the entry
\* that was next to be evicted and moved it behind the other one
C3_Witness ==
    /\ GetHit
    /\ max_size = 2
    /\ Len(before.cache) = 2
    /\ before.cache[1].key = call.text
    /\ cache[2].key = call.text
    /\ owed[call.text] = { cache[1].key }

\* C4: a put of a key already cached replaces its value, makes it the most
\* recently used, evicts nothing and leaves every other entry's value and
\* relative order as they were, also when the cache is full.
C4_PutExistingUpdates ==
    PutExisting =>
        /\ Len(cache) = Len(before.cache)
        /\ cache[Len(cache)] = [key |-> call.text, value |-> call.translation]
        /\ Others(cache, call.text) = Others(before.cache, call.text)
        /\ KeySet(cache) = KeySet(before.cache)

\* C4 witness: the oldest entry of a full cache of two is put with a new value
C4_Witness ==
    /\ PutExisting
    /\ Len(before.cache) = max_size
    /\ max_size = 2
    /\ before.cache[1].key = call.text
    /\ before.cache[1].value # call.translation

\* C5: a get of a key that is not cached returns None, raises nothing and
\* leaves the entries and their order as they were.
C5_GetMissIsAbsent ==
    GetMiss => ret = None /\ cache = before.cache

\* C5 witness: a miss on a cache that holds other entries
C5_Witness == GetMiss /\ Len(before.cache) = 2 /\ ret = None


(***************************************************************************)
(* Properties of Translator.translate (checked under Spec)                 *)
(***************************************************************************)
\* a text of whitespace only, the empty text included
OnlyWhitespace(text) == \A i \in 1..Len(text) : text[i] = " "

\* the text without the whitespace around it: its longest part that neither
\* starts nor ends with a space
Trimmed(text) ==
    LET first == CHOOSE i \in 1..Len(text) :
                    text[i] # " " /\ \A j \in 1..(i - 1) : text[j] = " "
        last  == CHOOSE i \in 1..Len(text) :
                    text[i] # " " /\ \A j \in (i + 1)..Len(text) : text[j] = " "
    IN  SubSeq(text, first, last)

\* the step is a call of translate with a text that is not blank
TranslateStep == call'.op = "translate" /\ ~OnlyWhitespace(call'.text)

\* the condition of the reuse path, on the state before the call
ReuseCondition ==
    /\ ~call'.force
    /\ last_source_text # <<>>
    /\ FracGeq(calculate_text_similarity_levenshtein(call'.text, last_source_text),
               similarity_threshold)

\* the cache, the last text and the last translation stay as they are
CoordinatorUnchanged ==
    /\ cache' = cache
    /\ last_source_text' = last_source_text
    /\ last_translation' = last_translation

\* C6: translate of an empty or whitespace-only text returns the empty
\* string, calls no provider and leaves the cache, the last text and the last
\* translation as they were, whatever force is.
C6_BlankTextIsNoOp ==
    [][ (call'.op = "translate" /\ OnlyWhitespace(call'.text)) =>
            /\ ret' = <<>>
            /\ provider_calls' = 0
            /\ cache_lookups' = 0
            /\ CoordinatorUnchanged
      ]_vars

\* C6 witness: a forced translate of " " on a translator that holds a cached
\* entry and a last translation
C6_Witness ==
    /\ call.op = "translate"
    /\ call.text = <<" ">>
    /\ call.force
    /\ ret = <<>>
    /\ last_translation # <<>>
    /\ cache # <<>>

\* C7: an unforced translate of a text whose similarity to a non-empty last
\* text reaches the threshold returns the last translation, calls neither the
\* cache nor the provider and changes nothing; so a repeated translate(t)
\* after one that succeeded returns the same result with no provider call.
C7_ReuseChangesNothing ==
    [][ /\ (call'.op = "translate" /\ ReuseCondition) =>
              /\ ret' = last_translation
              /\ provider_calls' = 0
              /\ cache_lookups' = 0
              /\ CoordinatorUnchanged
        /\ ( /\ call.op = "translate"
             /\ call.provider \in Results
             /\ call'.op = "translate"
             /\ call'.text = call.text
             /\ ~call'.force ) =>
              /\ ret' = ret
              /\ provider_calls' = 0
      ]_vars

\* C7 witness: an unforced translate of a text that is not the last text and
\* is not cached returned the last translation without asking anyone
C7_Witness ==
    /\ call.op = "translate"
    /\ ~call.force
    /\ ~OnlyWhitespace(call.text)
    /\ last_source_text # <<>>
    /\ Trimmed(call.text) # last_source_text
    /\ ~Contains(cache, Trimmed(call.text))
    /\ cache_lookups = 0
    /\ provider_calls = 0
    /\ ret = last_translation
    /\ ret # <<>>

\* C8: for a text that is not blank, translate takes the reuse path exactly
\* when force is false, the last text is non-empty and the similarity is at
\* least the threshold; in every other case it asks the cache and, on a miss,
\* the provider (whose handle it first creates if there is none).
C8_ReuseExactlyWhen ==
    [][ TranslateStep =>
            /\ ReuseCondition <=> cache_lookups' = 0
            /\ ~ReuseCondition =>
                  /\ cache_lookups' = 1
                  /\ Contains(cache, Trimmed(call'.text)) => provider_calls' = 0
                  /\ ~Contains(cache, Trimmed(call'.text)) =>
                        \/ provider_calls' = 1 /\ call'.provider # NotAsked
                        \/ translator = None /\ translator' = None /\ provider_calls' = 0
      ]_vars

\* the similarity of the last call's text to the last text is the threshold
AtThreshold ==
    LET sim == calculate_text_similarity_levenshtein(call.text, last_source_text)
    IN  sim[1] * similarity_threshold[2] = similarity_threshold[1] * sim[2]

\* C8 witness: the reuse path was taken with the similarity exactly at the
\* threshold
C8_Witness ==
    /\ call.op = "translate"
    /\ ~call.force
    /\ ~OnlyWhitespace(call.text)
    /\ last_source_text # <<>>
    /\ AtThreshold
    /\ cache_lookups = 0
    /\ ret = last_translation

\* C9: when translate does not take the reuse path and the cache holds the
\* text, it returns the cached value, calls no provider and sets the last
\* text and translation to the text and the cached value.
C9_CacheHitIsReturned ==
    [][ (TranslateStep /\ ~ReuseCondition /\ Contains(cache, Trimmed(call'.text))) =>
            /\ ret' = Lookup(cache, Trimmed(call'.text))
            /\ provider_calls' = 0
            /\ last_source_text' = Trimmed(call'.text)
            /\ last_translation' = Lookup(cache, Trimmed(call'.text))
      ]_vars

\* C9 witness: a forced translate of a padded text found its stripped form in
\* a cache of two entries and moved it to the end
C9_Witness ==
    /\ call.op = "translate"
    /\ call.force
    /\ ~OnlyWhitespace(call.text)
    /\ call.text # Trimmed(call.text)
    /\ cache_lookups = 1
    /\ provider_calls = 0
    /\ call.provider = NotAsked
    /\ Len(cache) = 2
    /\ cache[2] = [key |-> Trimmed(call.text), value |-> <<"x">>]
    /\ ret = <<"x">>
    /\ last_source_text = Trimmed(call.text)
    /\ last_translation = <<"x">>

\* C10: when translate reaches the provider and the provider returns r, then
\* afterwards the cache maps the text to r, the last text and translation are
\* the text and r, r is returned and the provider was called once.
C10_ProviderSuccessIsStored ==
    [][ (TranslateStep /\ call'.provider \in Results) =>
            /\ Contains(cache', Trimmed(call'.text))
            /\ Lookup(cache', Trimmed(call'.text)) = call'.provider
            /\ last_source_text' = Trimmed(call'.text)
            /\ last_translation' = call'.provider
            /\ ret' = call'.provider
            /\ provider_calls' = 1
      ]_vars

\* C10 witness: the provider returned "x" for a text that was put into a cache
\* that was full
C10_Witness ==
    /\ call.op = "translate"
    /\ call.provider = <<"x">>
    /\ provider_calls = 1
    /\ max_size = 2
    /\ Len(cache) = 2
    /\ cache[2] = [key |-> Trimmed(call.text), value |-> <<"x">>]
    /\ ret = <<"x">>

\* the step is a call of translate that entered the try block and left it
\* through the except block: the provider raised, or there was no handle and
\* none could be created
FailedStep ==
    /\ TranslateStep
    /\ cache_lookups' = 1
    /\ ~Contains(cache, Trimmed(call'.text))
    /\ call'.provider \notin Results

ProviderRaised == call.op = "translate" /\ call.provider = Raise

\* C12: a translate whose provider call fails leaves the last text, the last
\* translation and the cache as they were; so failures in a row return the
\* same "<prior> [error]", with the marker once.
C12_FailureChangesNothing ==
    [][ FailedStep =>
            /\ CoordinatorUnchanged
            /\ (ProviderRaised /\ last_translation # <<>>) =>
                  /\ ret' = ret
                  /\ ret' = last_translation \o ErrorMarker
      ]_vars

\* C12 witness: the provider raised for a text other than the last one, with
\* a last translation and a cached entry in place
C12_Witness ==
    /\ ProviderRaised
    /\ last_translation # <<>>
    /\ Trimmed(call.text) # last_source_text
    /\ cache # <<>>
    /\ ret = last_translation \o ErrorMarker

\* the characters of the texts, the translations and the error marker
StringChars ==
    { " ", "a", "b", "c", "A", "B", "x", "[", "e", "r", "o", "]" }

\* v is a string, and so neither None nor an exception
IsString(v) == \A i \in 1..Len(v) : v[i] \in StringChars

\* C13: whatever the text and whatever the provider does (it returns, it
\* raises, or its handle cannot be created), translate returns a string and
\* lets no exception out.
C13_AlwaysReturnsString ==
    call.op = "translate" => IsString(ret)

\* C13 witness: there was no handle and none could be created, and the
\* stripped text came back
C13_Witness ==
    /\ call.op = "translate"
    /\ ~OnlyWhitespace(call.text)
    /\ translator = None
    /\ cache_lookups = 1
    /\ provider_calls = 0
    /\ ret = Trimmed(call.text)

(***************************************************************************)
(* Properties of set_languages, clear_cache and the cache key              *)
(***************************************************************************)
\* the step is a call of set_languages with another pair than the current one
SetLanguagesChangeStep ==
    /\ call'.op = "set_languages"
    /\ (call'.source # source_lang \/ call'.target # target_lang)

\* C14: after set_languages with a pair that differs from the current one the
\* translator has the new pair, a handle for no other pair, an empty cache
\* and no last text or translation, whether or not the handle could be
\* created again.
C14_SetLanguagesResets ==
    [][ SetLanguagesChangeStep =>
            /\ source_lang' = call'.source
            /\ target_lang' = call'.target
            /\ translator' \in { None, GoogleTranslator(call'.source, call'.target) }
            /\ cache' = <<>>
            /\ last_source_text' = <<>>
            /\ last_translation' = <<>>
      ]_vars

\* C15: clear_cache empties the cache and the last text and translation and
\* leaves the languages, the threshold, the capacity and the handle alone; the
\* translate of a text that is not blank right after it misses the cache and
\* goes to the provider (creating its handle first if there is none).
C15_ClearCacheResets ==
    [][ /\ call'.op = "clear_cache" =>
              /\ cache' = <<>>
              /\ last_source_text' = <<>>
              /\ last_translation' = <<>>
              /\ UNCHANGED << source_lang, target_lang, similarity_threshold,
                              max_size, translator >>
        /\ (call.op = "clear_cache" /\ TranslateStep) =>
              /\ cache_lookups' = 1
              /\ \/ provider_calls' = 1 /\ call'.provider # NotAsked
                 \/ translator = None /\ translator' = None /\ provider_calls' = 0
      ]_vars

\* C15 witness: clear_cache on a translator whose languages had been changed
C15_Witness ==
    /\ call.op = "clear_cache"
    /\ cache = <<>>
    /\ last_source_text = <<>>
    /\ last_translation = <<>>
    /\ target_lang = "es"
    /\ translator = GoogleTranslator("it", "es")
    /\ max_size = 2

\* some key of dict d is text up to letter case
ContainsFolded(d, text) == \E i \in 1..Len(d) : Lower(d[i].key) = Lower(text)

Normalized(text) == Lower(Strip(text))

\* calculate_text_similarity_levenshtein was applied to call.text1, call.text2
SimilarityDone == call.op = "calculate_text_similarity_levenshtein"

\* levenshtein_distance was applied to call.text1, call.text2
DistanceDone == call.op = "levenshtein_distance"

\* the fraction x is 0.0, or 1.0
IsZero(x) == x[1] = 0
IsOne(x) == x[1] = x[2]

\* C17: the similarity is 0.0 whenever one of the texts is empty after
\* stripping, also when both are empty or both are whitespace only.
C17_EmptyNormalizedIsZero ==
    (SimilarityDone /\ (Strip(call.text1) = <<>> \/ Strip(call.text2) = <<>>))
        => IsZero(ret)

\* C18: the similarity is 1.0 exactly when the normalized forms of the two
\* texts are equal and not empty.
C18_OneIffEqualNonEmpty ==
    SimilarityDone =>
        (IsOne(ret) <=> /\ Normalized(call.text1) = Normalized(call.text2)
                        /\ Normalized(call.text1) # <<>>)

\* the two texts have normalized forms that are non-empty and differ
DistinctNonEmpty ==
    /\ Normalized(call.text1) # <<>>
    /\ Normalized(call.text2) # <<>>
    /\ Normalized(call.text1) # Normalized(call.text2)

\* C19: for texts with distinct non-empty normalized forms the similarity is
\* 1 - distance / max(len, len) of the normalized forms, the distance is
\* between 0 and that maximum, and the similarity is between 0 and 1.
C19_ScoreFormulaAndRange ==
    (SimilarityDone /\ DistinctNonEmpty) =>
        LET a_norm   == Normalized(call.text1)
            b_norm   == Normalized(call.text2)
            distance == levenshtein_distance(a_norm, b_norm)
            max_len  == Max2(Len(a_norm), Len(b_norm))
        IN  /\ ret[2] > 0
            /\ ret[1] * max_len = (max_len - distance) * ret[2]
            /\ 0 <= distance /\ distance <= max_len
            /\ 0 <= ret[1] /\ ret[1] <= ret[2]

\* C19 witness: texts with padding and capitals whose normalized forms have
\* different lengths and a similarity strictly between 0 and 1
C19_Witness ==
    /\ SimilarityDone
    /\ DistinctNonEmpty
    /\ call.text1 # Normalized(call.text1)
    /\ Len(Normalized(call.text1)) < Len(Normalized(call.text2))
    /\ 0 < ret[1] /\ ret[1] < ret[2]

RECURSIVE EditDistance(_, _)
\* the reference recurrence of the Levenshtein distance: the fewest
\* insertions, deletions and substitutions of one character that turn a into b
EditDistance(a, b) ==
    IF a = <<>> THEN Len(b)
    ELSE IF b = <<>> THEN Len(a)
    ELSE Min2(EditDistance(Tail(a), b) + 1,
              Min2(EditDistance(a, Tail(b)) + 1,
                   EditDistance(Tail(a), Tail(b))
                       + (IF Head(a) # Head(b) THEN 1 ELSE 0)))

\* C20: levenshtein_distance returns the distance of the reference
\* recurrence; it is 0 for equal sequences and the length of the other
\* sequence when one of them is empty.
C20_DistanceIsLevenshtein ==
    DistanceDone =>
        /\ ret = EditDistance(call.text1, call.text2)
        /\ call.text1 = call.text2 => ret = 0
        /\ call.text2 = <<>> => ret = Len(call.text1)
        /\ call.text1 = <<>> => ret = Len(call.text2)

\* C20 witness: the first sequence is the shorter one (the arguments are
\* swapped), and the distance needs a substitution and insertions
C20_Witness ==
    /\ DistanceDone
    /\ Len(call.text1) = 1
    /\ Len(call.text2) = 3
    /\ \A i \in 1..3 : call.text2[i] # call.text1[1]
    /\ ret = 3

\* C21: levenshtein_distance(a, b) = levenshtein_distance(b, a), also when
\* the lengths differ and the function swaps its arguments.
C21_DistanceIsSymmetric ==
    DistanceDone => ret = levenshtein_distance(call.text2, call.text1)

\* C21 witness: the first sequence is the shorter one, the two share a
\* character, and the distance is that of the swapped call
C21_Witness ==
    /\ DistanceDone
    /\ Len(call.text1) = 2
    /\ Len(call.text2) = 3
    /\ call.text1[1] = call.text2[3]
    /\ call.text1[2] # call.text2[3]
    /\ ret = 2
    /\ ret = levenshtein_distance(call.text2, call.text1)

(***************************************************************************)
(* More properties of the Translator (checked under Spec)                  *)
(***************************************************************************)
\* the step is a call of set_languages with the pair that is current
SetLanguagesSameStep ==
    /\ call'.op = "set_languages"
    /\ call'.source = source_lang
    /\ call'.target = target_lang

\* C27: set_languages with the current pair changes nothing (cache contents
\* and order, last text, last translation, handle, languages), and a
\* translate of the last text right after it is answered with the last
\* translation without a cache lookup or a provider call.
C27_SameLanguagesChangeNothing ==
    [][ /\ SetLanguagesSameStep =>
              UNCHANGED << cache, last_source_text, last_translation, translator,
                           source_lang, target_lang, max_size, similarity_threshold >>
        /\ ( /\ call.op = "set_languages"
             /\ TranslateStep
             /\ ~call'.force
             /\ last_source_text # <<>>
             /\ Trimmed(call'.text) = last_source_text ) =>
              /\ ret' = last_translation
              /\ provider_calls' = 0
              /\ cache_lookups' = 0
              /\ call'.provider = NotAsked
      ]_vars

\* C27 witness: after set_languages the translator still has two cached
\* entries, a last text and the handle of its pair
C27_Witness ==
    /\ call.op = "set_languages"
    /\ call.source = source_lang
    /\ call.target = target_lang
    /\ Len(cache) = 2
    /\ last_source_text # <<>>
    /\ last_translation # <<>>
    /\ translator = GoogleTranslator(source_lang, target_lang)

\* C28: if there is a last text, it is the key of the most recently used
\* entry of the cache and the value of that entry is the last translation;
\* and there is no last translation without a last text.
C28_LastTextIsNewestEntry ==
    /\ last_source_text # <<>> =>
          /\ cache # <<>>
          /\ cache[Len(cache)].key = last_source_text
          /\ cache[Len(cache)].value = last_translation
    /\ last_translation # <<>> => last_source_text # <<>>

\* C28 witness: a forced translate of the older of two cached texts was
\* answered from the cache, and that text is now the last one and the newest
C28_Witness ==
    /\ call.op = "translate"
    /\ call.force
    /\ cache_lookups = 1
    /\ provider_calls = 0
    /\ Len(cache) = 2
    /\ last_source_text # <<>>
    /\ cache[2].key = last_source_text
    /\ cache[2].value = last_translation
    /\ last_translation # <<>>
    /\ cache[1].value = <<>>

(***************************************************************************)
(* Properties of OCREngine.extract_text (checked under SpecOcr)            *)
(***************************************************************************)
\* the step is a call of extract_text
ExtractStep == call'.op = "extract_text"

\* the fingerprint of the frame of the step
FrameHash == calculate_image_hash(call'.image)

\* C22: with a single capture source, a check reports "changed" exactly when
\* the fingerprint of the frame differs from the fingerprint of the frame
\* checked just before it (the first check reports changed), whatever
\* happened to that frame after the check.
C22_ChangedIffDiffersFromPrevious ==
    [][ (ExtractStep /\ seen'.sources = {call'.region}) =>
            (call'.changed <=> \/ seen.prev[call'.region] = None
                               \/ FrameHash # seen.prev[call'.region])
      ]_vars

\* C23: each region has its own fingerprint: as long as no call failed, a
\* check of a region whose frame has the fingerprint of the region's
\* previous frame reports "unchanged" and returns without OCR, whatever was
\* checked for other regions in between.
C23_OneSlotPerRegion ==
    [][ ( /\ ExtractStep
          /\ seen.clean
          /\ seen.prev[call'.region] # None
          /\ FrameHash = seen.prev[call'.region] ) =>
            /\ ~call'.changed
            /\ UNCHANGED ocr_engine
      ]_vars

\* C30: text that extract_text returns without running OCR was computed for
\* an image of the same fingerprint and for the same language argument.
C30_RememberedTextMatchesLanguage ==
    [][ (ExtractStep /\ ~call'.changed) =>
            /\ ret' = ocr_engine.last_text
            /\ seen.made = <<FrameHash, call'.language>>
      ]_vars

(***************************************************************************)
(* Properties of the input threads (checked under SpecInput, and under     *)
(* FairSpecGamepad for the poll loop)                                      *)
(***************************************************************************)
\* the number of threads that are inside Translator.translate
InTranslate ==
    (IF pc.keyboard = "translate" THEN 1 ELSE 0)
  + (IF pc.gamepad = "translate" THEN 1 ELSE 0)
  + Cardinality({ i \in 1..Len(pc.monitor) : pc.monitor[i].at = "translate" })

\* C24: no two executions of translate on the one Translator overlap.
C24_TranslateIsSerialized == InTranslate <= 1

\* when the callback of an action was last invoked, by either device
\* (0: never)
LastInvoked(action) ==
    CASE action = "translate" ->
            Max2(hotkey_manager.last_translate_time, gamepad_manager.last_translate_time)
      [] action = "tts" ->
            Max2(hotkey_manager.last_tts_time, gamepad_manager.last_tts_time)
      [] action = "translated_tts" -> gamepad_manager.last_translated_tts_time

\* C25: two invocations of the callback of one action are more than the
\* debounce interval apart, whichever device triggered them.
C25_DebouncedPerAction ==
    [][ \A action \in { "translate", "tts", "translated_tts" } :
            (history'.invoked = action /\ LastInvoked(action) # 0) =>
                now - LastInvoked(action) > DebounceTime
      ]_vars

\* the poll loop is running: the thread is there and has not ended
PollLoopAlive == pc.gamepad \notin { "none", "done" }

\* C26 as stated: after start() and until stop() the manager has a poll loop
\* that polls or retries the detection, also when no gamepad was there at
\* start().
C26_AsStated ==
    (history.started /\ ~history.stopped) =>
        (gamepad_manager.running /\ PollLoopAlive)

\* C26: start() without a gamepad starts no poll loop, and none appears
\* later; start() with a gamepad starts one, and then, if the gamepad is or
\* becomes available for good and stop() is not called, the loop holds a
\* joystick and polls the buttons again and again, also after a polling
\* error; after stop() the loop ends.
C26_RetriesAfterLoss ==
    /\ [][ (~history.started /\ history'.started) =>
              (PollLoopAlive' <=> gamepad_present) ]_vars
    /\ [][ (history.started /\ ~PollLoopAlive) => ~PollLoopAlive' ]_vars
    /\ <>[](gamepad_present /\ gamepad_manager.running)
          => []<>(gamepad_manager.joystick /\ pc.gamepad = "button_translate")
    /\ history.stopped ~> ~PollLoopAlive

\* C26 witness: the joystick was lost through a polling error and the loop,
\* still running, has a joystick again and is at the buttons
C26_Witness ==
    /\ history.lost
    /\ ~history.stopped
    /\ gamepad_manager.running
    /\ gamepad_manager.joystick
    /\ gamepad_present
    /\ pc.gamepad = "button_translate"

(***************************************************************************)
(* Properties of the continuous monitor loop (checked under SpecMonitor)   *)
(***************************************************************************)
\* the threads of _monitor_loop that are at work on the engines
Working == { i \in MonitorThreads : pc.monitor[i].at \in { "ocr", "translate" } }

\* C29: at most one monitor loop is at work on the OCR engine and the
\* translator at any time, also after a stop whose join timed out and a
\* start that followed it.
C29_OneMonitorLoop == Cardinality(Working) <= 1

====
